---------------------------- MODULE Spec2Model ----------------------------
(***************************************************************************)
(* Model of scripts/generate.js: a static-site generator that lists the    *)
(* repositories of a GitHub organisation, enriches each with topics and    *)
(* README data, groups them by topic and writes two HTML pages.            *)
(*                                                                         *)
(* The source file holds three successive variants of the script:          *)
(*   variant 1  lines   1-202  node-fetch, free-form groupByTopic          *)
(*   variant 2  lines 204-320  fetchJSON, one listing request, fixed labels*)
(*   variant 3  lines 322-552  fetchJSON, paginated, fixed labels, a       *)
(*                             separate featured pass                      *)
(*                                                                         *)
(* JavaScript strings are sequences of one-character strings, so that      *)
(* startsWith, replace, trim and split are computed and not assumed.       *)
(***************************************************************************)
EXTENDS Integers, Sequences, FiniteSets, TLC

VARIABLES
  variant,       \* which of the three scripts runs
  world,         \* the organisation's repositories as the API would list them
  pc,            \* position of main()
  page,          \* fetchAllRepos: let page
  listLog,       \* listing requests issued so far, with the response each got
  repos,         \* fetchAllRepos: repos / allRepos; main: repos
  idx,           \* index of the for-of loop over repos
  enriched,      \* main: enriched
  featured,      \* main: featured
  groupsAll,     \* main: groupsAll / grouped / groupedAll
  groupsFeatured,\* main: groupsFeatured / groupedFeatured
  allHtml,       \* the file all_test.html
  featuredHtml,  \* the file featured_workshops.html
  exitCode,      \* process exit code, -1 while running
  errLogged,     \* console.error(err) of main().catch ran
  failedAt,      \* the request or statement whose error escaped main()
  faults,        \* failing responses injected so far
  readmeText,    \* argument of extractTitleAndBlurb (pure-function check)
  extracted      \* its result

vars == <<variant, world, pc, page, listLog, repos, idx, enriched, featured,
          groupsAll, groupsFeatured, allHtml, featuredHtml, exitCode,
          errLogged, failedAt, faults, readmeText, extracted>>

pipelineVars == <<world, pc, page, listLog, repos, idx, enriched, featured,
                  groupsAll, groupsFeatured, allHtml, featuredHtml, exitCode,
                  errLogged, failedAt, faults>>

-----------------------------------------------------------------------------
(* Bounds of the model *)

\* Most lines a README of the pure-function check holds.
MaxLines == 3
\* Most repositories of a hand-sized organisation.
MaxRepos == 2
\* Most failing responses injected into one run.
MaxFaults == 1

-----------------------------------------------------------------------------
(* JavaScript values and strings *)

\* null and undefined: one falsy non-string value.
Undefined == <<"undefined">>

\* Boolean coercion of a string-or-null value: null, undefined and '' are falsy.
Truthy(v) == v # Undefined /\ v # <<>>

\* String(v) as string concatenation and localeCompare apply it.
Str(v) == IF v = Undefined
          THEN <<"u", "n", "d", "e", "f", "i", "n", "e", "d">>
          ELSE v

\* Characters that \s matches and trim() removes.
IsSpace(c) == c \in {" ", "\t", "\r", "\n"}

StartsWith(s, p) == Len(s) >= Len(p) /\ SubSeq(s, 1, Len(p)) = p

RECURSIVE DropWhileIn(_, _)
DropWhileIn(s, set) ==
  IF s # <<>> /\ Head(s) \in set THEN DropWhileIn(Tail(s), set) ELSE s

RECURSIVE TrimEnd(_)
TrimEnd(s) ==
  IF s # <<>> /\ IsSpace(s[Len(s)]) THEN TrimEnd(SubSeq(s, 1, Len(s) - 1)) ELSE s

SpaceChars == {" ", "\t", "\r", "\n"}

Trim(s) == TrimEnd(DropWhileIn(s, SpaceChars))

\* s.replace(p, '') with a string pattern: the first occurrence is removed.
ReplaceFirst(s, p) ==
  LET hits == {i \in 1..(Len(s) - Len(p) + 1) : SubSeq(s, i, i + Len(p) - 1) = p}
  IN  IF hits = {} THEN s
      ELSE LET i == CHOOSE h \in hits : \A g \in hits : h <= g
           IN  SubSeq(s, 1, i - 1) \o SubSeq(s, i + Len(p), Len(s))

\* readme.split(/\r?\n/)
RECURSIVE Split(_)
Split(s) ==
  LET nl == {i \in 1..Len(s) : s[i] = "\n"}
  IN  IF nl = {} THEN <<s>>
      ELSE LET i    == CHOOSE h \in nl : \A g \in nl : h <= g
               stop == IF i > 1 /\ s[i - 1] = "\r" THEN i - 2 ELSE i - 1
           IN  <<SubSeq(s, 1, stop)>> \o Split(SubSeq(s, i + 1, Len(s)))

-----------------------------------------------------------------------------
(* extractTitleAndBlurb *)

HASH == <<"#">>
DESCRIPTION_MARK == <<"D", "e", "s", "c", "r", "i", "p", "t", "i", "o", "n", ":">>

\* line.replace(/^#+\s*/, '').trim()
HeadingContent(line) ==
  Trim(DropWhileIn(DropWhileIn(line, {"#"}), SpaceChars))

\* variant 1: line.replace("Description:", "").trim()
\* variant 3: line.replace(/^Description:\s*/, '').trim()
BlurbContent(v, line) ==
  IF v = 1
  THEN Trim(ReplaceFirst(line, DESCRIPTION_MARK))
  ELSE Trim(DropWhileIn(
              IF StartsWith(line, DESCRIPTION_MARK)
              THEN SubSeq(line, Len(DESCRIPTION_MARK) + 1, Len(line))
              ELSE line, SpaceChars))

\* A mutant of TakeTitle: the !title guard is lost, a later heading overwrites.
TakeTitleUnguarded(title, line) ==
  IF StartsWith(line, HASH) THEN HeadingContent(line) ELSE title

\* if (!title && line.startsWith('#')) title = ...
TakeTitle(title, line) ==
  IF ~Truthy(title) /\ StartsWith(line, HASH) THEN HeadingContent(line) ELSE title

\* if (!blurb && line.startsWith('Description:')) blurb = ...
TakeBlurb(v, blurb, line) ==
  IF ~Truthy(blurb) /\ StartsWith(line, DESCRIPTION_MARK)
  THEN BlurbContent(v, line) ELSE blurb

\* The for-of loop over the lines, from line i on, with its early break.
RECURSIVE ScanLines(_, _, _, _, _)
ScanLines(v, lines, i, title, blurb) ==
  IF i > Len(lines) THEN [title |-> title, blurb |-> blurb]
  ELSE LET t == TakeTitle(title, lines[i])
           b == TakeBlurb(v, blurb, lines[i])
       IN  IF Truthy(t) /\ Truthy(b)
           THEN [title |-> t, blurb |-> b]
           ELSE ScanLines(v, lines, i + 1, t, b)

\* variant 1 starts from null and returns at once on a falsy readme;
\* variant 3 starts from ''.
extractTitleAndBlurb(v, readme) ==
  IF v = 1
  THEN IF ~Truthy(readme) THEN [title |-> Undefined, blurb |-> Undefined]
       ELSE ScanLines(v, Split(readme), 1, Undefined, Undefined)
  ELSE ScanLines(v, Split(readme), 1, <<>>, <<>>)

-----------------------------------------------------------------------------
(* README texts of the pure-function check *)

SampleLines ==
  { <<"#", " ", "A">>,
    <<"#">>,
    <<"#", "#", " ", "B", " ">>,
    <<" ", "#", " ", "A">>,
    DESCRIPTION_MARK \o <<" ", "x">>,
    DESCRIPTION_MARK,
    DESCRIPTION_MARK \o <<"y", " ">>,
    <<"t", " ">>,
    <<>> }

LF == <<"\n">>
CRLF == <<"\r", "\n">>

RECURSIVE Join(_, _)
Join(lines, sep) ==
  IF lines = <<>> THEN <<>>
  ELSE IF Len(lines) = 1 THEN lines[1]
  ELSE lines[1] \o sep \o Join(Tail(lines), sep)

LineSeqs == UNION {[1..n -> SampleLines] : n \in 0..MaxLines}

SampleReadmes == {Join(ls, sep) : ls \in LineSeqs, sep \in {LF, CRLF}}

NotExtracted == [title |-> <<"?">>, blurb |-> <<"?">>]

-----------------------------------------------------------------------------
(* localeCompare *)

LOWER == <<"a", "b", "c", "d", "e", "f", "g", "h", "i", "j", "k", "l", "m",
           "n", "o", "p", "q", "r", "s", "t", "u", "v", "w", "x", "y", "z">>
UPPER == <<"A", "B", "C", "D", "E", "F", "G", "H", "I", "J", "K", "L", "M",
           "N", "O", "P", "Q", "R", "S", "T", "U", "V", "W", "X", "Y", "Z">>
DIGITS == <<"0", "1", "2", "3", "4", "5", "6", "7", "8", "9">>
PUNCTUATION == <<"\t", "\n", "\r", " ", ":", "(", ")", "#">>

IndexIn(seq, c) == CHOOSE i \in 1..Len(seq) : seq[i] = c
Occurs(seq, c) == \E i \in 1..Len(seq) : seq[i] = c

CollatedChars ==
  {LOWER[i] : i \in 1..Len(LOWER)} \cup {UPPER[i] : i \in 1..Len(UPPER)}
    \cup {DIGITS[i] : i \in 1..Len(DIGITS)}
    \cup {PUNCTUATION[i] : i \in 1..Len(PUNCTUATION)}

\* Primary collation weight: white space and punctuation before digits before
\* letters, a letter's two cases alike.
PrimaryWeights ==
  [c \in CollatedChars |->
     IF Occurs(LOWER, c) THEN 100 + IndexIn(LOWER, c)
     ELSE IF Occurs(UPPER, c) THEN 100 + IndexIn(UPPER, c)
     ELSE IF Occurs(DIGITS, c) THEN 50 + IndexIn(DIGITS, c)
     ELSE IndexIn(PUNCTUATION, c)]

PrimaryWeight(c) == IF c \in CollatedChars THEN PrimaryWeights[c] ELSE 0

UpperChars == {UPPER[i] : i \in 1..Len(UPPER)}

\* Tertiary weight: lower case before upper case.
TertiaryWeight(c) == IF c \in UpperChars THEN 1 ELSE 0

RECURSIVE LexCompare(_, _)
LexCompare(a, b) ==
  IF a = <<>> /\ b = <<>> THEN 0
  ELSE IF a = <<>> THEN -1
  ELSE IF b = <<>> THEN 1
  ELSE IF Head(a) < Head(b) THEN -1
  ELSE IF Head(a) > Head(b) THEN 1
  ELSE LexCompare(Tail(a), Tail(b))

\* a.localeCompare(b): the primary weights decide, the case breaks their ties.
localeCompare(a, b) ==
  LET pa == [i \in 1..Len(a) |-> PrimaryWeight(a[i])]
      pb == [i \in 1..Len(b) |-> PrimaryWeight(b[i])]
      p  == LexCompare(pa, pb)
  IN  IF p # 0 THEN p
      ELSE LexCompare([i \in 1..Len(a) |-> TertiaryWeight(a[i])],
                      [i \in 1..Len(b) |-> TertiaryWeight(b[i])])

\* The comparators of the three scripts: by title or by description.
CompareBy(key, a, b) == localeCompare(Str(a[key]), Str(b[key]))

\* A mutant of SortBy: the array is left in its input order.
SortByNothing(seq, key) == seq

\* Array.prototype.sort with the comparator CompareBy(key), a stable sort:
\* an element goes behind those that compare less and behind its equals that
\* came before it.
SortBy(seq, key) ==
  LET n == Len(seq)
      Before(j, i) == LET c == CompareBy(key, seq[j], seq[i])
                      IN  c < 0 \/ (c = 0 /\ j < i)
      placed == {<<1 + Cardinality({j \in 1..n : Before(j, i)}), i>> : i \in 1..n}
  IN  [p \in 1..n |-> seq[(CHOOSE pi \in placed : pi[1] = p)[2]]]

-----------------------------------------------------------------------------
(* Program constants *)

\* per_page=100 of the listing URL and the do-while condition
PER_PAGE == 100

TOPIC_LABELS ==
  <<"data", "digital-scholarship", "geospatial", "research-data-management">>

TopicLabelKeys == {TOPIC_LABELS[i] : i \in 1..Len(TOPIC_LABELS)}

\* <h2>${TOPIC_LABELS[topic]}</h2>
TopicLabel(topic) ==
  CASE topic = "data" -> "Data analysis and visualization"
    [] topic = "digital-scholarship" -> "Digital scholarship"
    [] topic = "geospatial" -> "Geographic information systems (GIS) and mapping"
    [] topic = "research-data-management" -> "Research data management"

ARCHIVED_SUFFIX == <<" ", "(", "a", "r", "c", "h", "i", "v", "e", "d", ")">>
ARCHIVED_CLASS == "class=\"archived\""

\* Every topic string of the model in the code-unit order of Array.prototype.sort().
TopicOrder == <<"Other", "data", "digital-scholarship", "featured", "geospatial",
                "misc", "research-data-management", "workshop">>

-----------------------------------------------------------------------------
(* The organisation on the server *)

RepoPool ==
  { [name |-> <<"p">>, description |-> <<"B">>, archived |-> FALSE,
     topics |-> <<"workshop", "featured", "data">>,
     readme |-> <<"#", " ", "b", "\n">> \o DESCRIPTION_MARK \o <<" ", "x">>],
    [name |-> <<"q">>, description |-> <<"A">>, archived |-> TRUE,
     topics |-> <<"workshop", "data", "geospatial">>,
     readme |-> Undefined],
    [name |-> <<"r">>, description |-> Undefined, archived |-> FALSE,
     topics |-> <<"workshop", "featured", "data">>,
     readme |-> <<"t", " ">>],
    [name |-> <<"s">>, description |-> <<>>, archived |-> TRUE,
     topics |-> <<"workshop", "featured", "geospatial">>,
     readme |-> <<"#", "\n", "#", " ", "A">>],
    [name |-> <<"t">>, description |-> <<"a">>, archived |-> FALSE,
     topics |-> <<>>,
     readme |-> DESCRIPTION_MARK \o <<"y">>],
    [name |-> <<"u">>, description |-> <<"b">>, archived |-> TRUE,
     topics |-> <<"featured", "misc">>,
     readme |-> <<"#", " ", "A">>] }

Injective(f) == \A i, j \in DOMAIN f : i # j => f[i] # f[j]

\* Hand-sized organisations: up to MaxRepos distinct repositories in any order.
SmallWorlds ==
  UNION {{w \in [1..n -> RepoPool] : Injective(w)} : n \in 0..MaxRepos}

RECURSIVE Decimal(_)
Decimal(n) == IF n < 10 THEN <<DIGITS[n + 1]>>
              ELSE Decimal(n \div 10) \o <<DIGITS[(n % 10) + 1]>>

\* A repository with nothing but a name.
Filler(k) ==
  [name |-> <<"f">> \o Decimal(k), description |-> Undefined, archived |-> FALSE,
   topics |-> <<>>, readme |-> Undefined]

\* Organisations around the page size: a page one short of full, exactly one
\* full page, one full page and one more repository.
LargeSizes == {PER_PAGE - 1, PER_PAGE, PER_PAGE + 1}

LargeWorlds == {[k \in 1..n |-> Filler(k)] : n \in LargeSizes}

\* What GET /orgs/{org}/repos?per_page=100&page=k answers with: array items
\* {name, description, archived}.
ListedRepo(r) ==
  [name |-> r.name, description |-> r.description, archived |-> r.archived]

Min(a, b) == IF a < b THEN a ELSE b

Page(w, k) ==
  LET from == PER_PAGE * (k - 1) + 1
      to   == Min(PER_PAGE * k, Len(w))
  IN  [i \in 1..(IF to >= from THEN to - from + 1 ELSE 0) |->
         ListedRepo(w[from + i - 1])]

\* An error body or another JSON object taken for a repository: every
\* property read from it is undefined.
JunkRepo == [name |-> Undefined, description |-> Undefined, archived |-> FALSE]

Known(w, name) == \E i \in 1..Len(w) : w[i].name = name
Lookup(w, name) == w[CHOOSE i \in 1..Len(w) : w[i].name = name]

\* GET /repos/{org}/{name}/topics -> {names: [...]}
ServerTopics(w, name) == Lookup(w, name).topics
\* GET /repos/{org}/{name}/readme -> {content: base64}; the payload is kept
\* decoded, Buffer.from(content, 'base64').toString() returns it.
ServerReadme(w, name) == Lookup(w, name).readme

\* Responses: "ok" a 2xx with the expected JSON; "http" a status >= 400 with a
\* JSON error object; "net" a network failure; "badjson" a 2xx whose body does
\* not parse; "obj" a 2xx JSON object where an array was expected; "nonames" /
\* "nocontent" a 2xx JSON object without the names / content property.
ListFaults == {"http", "net", "badjson", "obj"}
TopicsFaults == {"http", "net", "badjson", "nonames"}
ReadmeFaults == {"http", "net", "badjson", "nocontent"}

\* What the server answers when nothing goes wrong: 404 for a repository it
\* does not know or that has no README.
NaturalTopics(w, name) == IF Known(w, name) THEN "ok" ELSE "http"
NaturalReadme(w, name) ==
  IF Known(w, name) /\ ServerReadme(w, name) # Undefined THEN "ok" ELSE "http"

Cost(kind, natural) == IF kind = natural THEN 0 ELSE 1

-----------------------------------------------------------------------------
(* Enrichment, grouping and rendering *)

Includes(seq, x) == \E i \in 1..Len(seq) : seq[i] = x

URL_PREFIX == "https://ORG.github.io/"

\* `https://${ORG}.github.io/${repo.name}/`
PageUrl(name) == <<URL_PREFIX>> \o Str(name) \o <<"/">>

\* A mutant of FallbackTitle: the repository name is not fallen back to.
FallbackTitleNoName(title, description, name) ==
  IF Truthy(title) THEN title ELSE description

\* title || repo.description || repo.name
FallbackTitle(title, description, name) ==
  IF Truthy(title) THEN title
  ELSE IF Truthy(description) THEN description
  ELSE name

\* A mutant of HasDescription: only null is tested, '' passes.
HasDescriptionNotNull(repo) == repo.description # Undefined

\* if (!repo.description) continue;
HasDescription(repo) == Truthy(repo.description)

\* The records pushed to enriched and featured. A field the script's object
\* literal does not have is Undefined.
TitledRecord(v, repo, names, readme) ==
  LET e == extractTitleAndBlurb(v, readme)
  IN  [name |-> repo.name,
       title |-> FallbackTitle(e.title, repo.description, repo.name),
       description |-> Undefined,
       blurb |-> e.blurb,
       url |-> PageUrl(repo.name),
       archived |-> repo.archived,
       topics |-> names]

DescribedRecord(repo, names) ==
  [name |-> repo.name,
   title |-> Undefined,
   description |-> repo.description,
   blurb |-> Undefined,
   url |-> PageUrl(repo.name),
   archived |-> repo.archived,
   topics |-> names]

\* topics.names || [] (and variant 1 fetchRepoTopics: !res.ok gives {names: []})
NamesOrEmpty(kind, w, name) == IF kind = "ok" THEN ServerTopics(w, name) ELSE <<>>

\* variant 1 fetchRepoReadme: !res.ok or no content gives ""
ReadmeV1(kind, w, name) == IF kind = "ok" THEN ServerReadme(w, name) ELSE <<>>

\* variant 1: fetch() rejects on a network failure and res.json() on a body
\* that does not parse; nothing in main catches either.
ThrowsV1(kind) == kind \in {"net", "badjson"}

\* fetchJSON rejects on a status >= 400, a network error and a JSON.parse error.
Rejects(kind) == kind \in {"http", "net", "badjson"}

\* variant 3 fetchRepoReadme: every failure, the TypeError of
\* Buffer.from(undefined, 'base64') included, is caught and gives ''.
ReadmeV3(kind, w, name) == IF kind = "ok" THEN ServerReadme(w, name) ELSE <<>>

GroupNames(r) == IF Len(r.topics) > 0 THEN r.topics ELSE <<"Other">>

\* A mutant of groupByTopic: a record without topics joins no group.
groupByTopicNoOther(rs) ==
  LET keys == UNION {{rs[i].topics[j] : j \in 1..Len(rs[i].topics)} : i \in 1..Len(rs)}
  IN  [t \in keys |-> SelectSeq(rs, LAMBDA r : Includes(r.topics, t))]

\* variant 1 groupByTopic: each record is pushed, in order, to the group of
\* each of its topics, or to "Other".
groupByTopic(rs) ==
  LET keys == UNION {{GroupNames(rs[i])[j] : j \in 1..Len(GroupNames(rs[i]))} :
                       i \in 1..Len(rs)}
  IN  [t \in keys |-> SelectSeq(rs, LAMBDA r : Includes(GroupNames(r), t))]

\* variants 2 and 3: for (const topic of Object.keys(TOPIC_LABELS))
\*   grouped[topic] = list.filter(includes topic).sort(by key)
GroupFixed(rs, key) ==
  [t \in TopicLabelKeys |->
     SortBy(SelectSeq(rs, LAMBDA r : Includes(r.topics, t)), key)]

\* repo.title + (repo.archived ? " (archived)" : "")
ItemText(display, archived) ==
  Str(display) \o (IF archived THEN ARCHIVED_SUFFIX ELSE <<>>)

\* A mutant of ItemClass: the archived class is never set.
ItemClassNever(archived) == ""

\* repo.archived ? 'class="archived"' : ''
ItemClass(archived) == IF archived THEN ARCHIVED_CLASS ELSE ""

\* One <li>: the link's class, href and text and, on the featured page, the
\* blurb paragraph.
RenderItem(repo, key, withBlurb) ==
  [href |-> repo.url,
   text |-> ItemText(repo[key], repo.archived),
   cls |-> ItemClass(repo.archived),
   blurb |-> IF withBlurb /\ Truthy(repo.blurb) THEN repo.blurb ELSE <<>>]

RenderItems(rs, key, withBlurb) ==
  [i \in 1..Len(rs) |-> RenderItem(rs[i], key, withBlurb)]

\* variant 1: Object.keys(groups).sort().map(topic => <h2>topic</h2> <ul>...)
SectionsFree(groups, withBlurb) ==
  LET keys == SelectSeq(TopicOrder, LAMBDA t : t \in DOMAIN groups)
  IN  [i \in 1..Len(keys) |->
         [topic |-> keys[i], heading |-> keys[i],
          items |-> RenderItems(groups[keys[i]], "title", withBlurb)]]

\* variants 2 and 3: Object.entries(grouped).map(...): a group without
\* repositories renders as '', the others as <section><h2>label</h2><ul>...
SectionsFixed(groups, key, withBlurb) ==
  LET keys == SelectSeq(TOPIC_LABELS, LAMBDA t : Len(groups[t]) > 0)
  IN  [i \in 1..Len(keys) |->
         [topic |-> keys[i], heading |-> TopicLabel(keys[i]),
          items |-> RenderItems(groups[keys[i]], key, withBlurb)]]

NotWritten == [written |-> FALSE, sections |-> <<>>]
Written(sections) == [written |-> TRUE, sections |-> sections]
NoGroups == [t \in {} |-> <<>>]

-----------------------------------------------------------------------------
(* The run of main() *)

Init ==
  /\ variant \in {1, 2, 3}
  /\ (world \in SmallWorlds \/ world \in LargeWorlds)
  /\ pc = "list"
  /\ page = 1
  /\ listLog = <<>>
  /\ repos = <<>>
  /\ idx = 1
  /\ enriched = <<>>
  /\ featured = <<>>
  /\ groupsAll = NoGroups
  /\ groupsFeatured = NoGroups
  /\ allHtml = NotWritten
  /\ featuredHtml = NotWritten
  /\ exitCode = -1
  /\ errLogged = FALSE
  /\ failedAt = "nowhere"
  /\ faults = 0
  /\ readmeText = <<>>
  /\ extracted = NotExtracted

\* main().catch(err => { console.error(err); process.exit(1); })
Abort(where) ==
  /\ pc' = "aborted"
  /\ exitCode' = 1
  /\ errLogged' = TRUE
  /\ failedAt' = where

Running == UNCHANGED <<exitCode, errLogged, failedAt>>

\* data.length / fetched.length: undefined (-1 here) when the body is no array.
LengthOf(kind, data) == IF kind = "ok" THEN Len(data) ELSE -1

\* What concat adds: the items of an array, or the one object that is none.
Concat(rs, kind, data) == IF kind = "ok" THEN rs \o data ELSE Append(rs, JunkRepo)

\* variant 1: if (data.length === 0) break;
MorePagesV1(len) == len # 0

\* A mutant of MorePagesV3: the loop goes on after every page that is not empty.
MorePagesWhileNotEmpty(len) == len > 0

\* variant 3: while (fetched.length === 100)
MorePagesV3(len) == len = PER_PAGE

\* variant 1 fetchAllRepos, one turn of while (true): fetch, res.json(),
\* break on an empty array, else concat and page++.
ListPageV1 ==
  /\ variant = 1
  /\ pc = "list"
  /\ \E kind \in {"ok"} \cup ListFaults :
       LET data == Page(world, page)
           len  == LengthOf(kind, data)
       IN  /\ faults + Cost(kind, "ok") <= MaxFaults
           /\ faults' = faults + Cost(kind, "ok")
           /\ listLog' = Append(listLog, [page |-> page, kind |-> kind, len |-> len])
           /\ IF ThrowsV1(kind)
              THEN Abort("list") /\ UNCHANGED <<page, repos>>
              ELSE IF MorePagesV1(len)
              THEN /\ repos' = Concat(repos, kind, data)
                   /\ page' = page + 1
                   /\ pc' = "list"
                   /\ Running
              ELSE /\ pc' = "enrich"
                   /\ UNCHANGED <<page, repos>>
                   /\ Running
  /\ UNCHANGED <<variant, world, idx, enriched, featured, groupsAll,
                 groupsFeatured, allHtml, featuredHtml, readmeText, extracted>>

\* variant 2: const repos = await fetchJSON('.../repos?per_page=100'), and the
\* for-of over it, which throws at once when repos is not iterable.
ListV2 ==
  /\ variant = 2
  /\ pc = "list"
  /\ \E kind \in {"ok"} \cup ListFaults :
       LET data == Page(world, 1)
       IN  /\ faults + Cost(kind, "ok") <= MaxFaults
           /\ faults' = faults + Cost(kind, "ok")
           /\ listLog' = Append(listLog, [page |-> 1, kind |-> kind,
                                          len |-> LengthOf(kind, data)])
           /\ IF Rejects(kind)
              THEN Abort("list") /\ UNCHANGED repos
              ELSE IF kind = "obj"
              THEN Abort("iterate") /\ UNCHANGED repos
              ELSE /\ repos' = data
                   /\ pc' = "enrich"
                   /\ Running
  /\ UNCHANGED <<variant, world, page, idx, enriched, featured, groupsAll,
                 groupsFeatured, allHtml, featuredHtml, readmeText, extracted>>

\* variant 3 fetchAllRepos, one turn of the do-while: fetchJSON, concat,
\* page++, and again while the page was full.
ListPageV3 ==
  /\ variant = 3
  /\ pc = "list"
  /\ \E kind \in {"ok"} \cup ListFaults :
       LET data == Page(world, page)
           len  == LengthOf(kind, data)
       IN  /\ faults + Cost(kind, "ok") <= MaxFaults
           /\ faults' = faults + Cost(kind, "ok")
           /\ listLog' = Append(listLog, [page |-> page, kind |-> kind, len |-> len])
           /\ IF Rejects(kind)
              THEN Abort("list") /\ UNCHANGED <<page, repos>>
              ELSE /\ repos' = Concat(repos, kind, data)
                   /\ page' = page + 1
                   /\ pc' = IF MorePagesV3(len) THEN "list" ELSE "enrich"
                   /\ Running
  /\ UNCHANGED <<variant, world, idx, enriched, featured, groupsAll,
                 groupsFeatured, allHtml, featuredHtml, readmeText, extracted>>

\* variant 1, one turn of for (const repo of repos): both fetches, the
\* extraction and the pushes. No try/catch surrounds them.
EnrichV1 ==
  /\ variant = 1
  /\ pc = "enrich"
  /\ idx <= Len(repos)
  /\ LET repo == repos[idx]
         nt   == NaturalTopics(world, repo.name)
         nr   == NaturalReadme(world, repo.name)
     IN  \E kt \in {nt} \cup TopicsFaults, kr \in {nr} \cup ReadmeFaults :
           IF ThrowsV1(kt)
           THEN /\ kr = nr
                /\ faults + 1 <= MaxFaults
                /\ faults' = faults + 1
                /\ Abort("topics")
                /\ UNCHANGED <<idx, enriched, featured>>
           ELSE /\ faults + Cost(kt, nt) + Cost(kr, nr) <= MaxFaults
                /\ faults' = faults + Cost(kt, nt) + Cost(kr, nr)
                /\ IF ThrowsV1(kr)
                   THEN Abort("readme") /\ UNCHANGED <<idx, enriched, featured>>
                   ELSE LET rec == TitledRecord(1, repo, NamesOrEmpty(kt, world, repo.name),
                                                ReadmeV1(kr, world, repo.name))
                        IN  /\ enriched' = Append(enriched, rec)
                            /\ featured' = IF Includes(rec.topics, "featured")
                                           THEN Append(featured, rec) ELSE featured
                            /\ idx' = idx + 1
                            /\ pc' = "enrich"
                            /\ Running
  /\ UNCHANGED <<variant, world, page, listLog, repos, groupsAll,
                 groupsFeatured, allHtml, featuredHtml, readmeText, extracted>>

\* a.title.localeCompare(b.title) throws a TypeError when a.title is
\* undefined. Which pairs the comparator is called on is up to the engine:
\* with an untitled record among two or more the sort may throw, and it must
\* when every record is untitled.
SortThrows(rs) ==
  IF Len(rs) >= 2 /\ \E i \in 1..Len(rs) : rs[i].title = Undefined
  THEN {TRUE} \cup (IF \E i \in 1..Len(rs) : rs[i].title # Undefined
                    THEN {FALSE} ELSE {})
  ELSE {FALSE}

\* variant 1 after the loop: both sorts, groupByTopic twice, both pages
\* rendered, both files written.
GenerateV1 ==
  /\ variant = 1
  /\ pc = "enrich"
  /\ idx > Len(repos)
  /\ \E throws \in SortThrows(enriched) :
       IF throws
       THEN /\ Abort("sort")
            /\ UNCHANGED <<enriched, featured, groupsAll, groupsFeatured,
                           allHtml, featuredHtml>>
       ELSE LET se == SortBy(enriched, "title")
                sf == SortBy(featured, "title")
                ga == groupByTopic(se)
                gf == groupByTopic(sf)
            IN  /\ enriched' = se
                /\ featured' = sf
                /\ groupsAll' = ga
                /\ groupsFeatured' = gf
                /\ allHtml' = Written(SectionsFree(ga, FALSE))
                /\ featuredHtml' = Written(SectionsFree(gf, TRUE))
                /\ pc' = "done"
                /\ exitCode' = 0
                /\ UNCHANGED <<errLogged, failedAt>>
  /\ UNCHANGED <<variant, world, page, listLog, repos, idx, faults,
                 readmeText, extracted>>

\* variant 2, one turn of the loop: skip without description, else fetch the
\* topics inside try/catch and push.
EnrichV2 ==
  /\ variant = 2
  /\ pc = "enrich"
  /\ idx <= Len(repos)
  /\ LET repo == repos[idx]
         nt   == NaturalTopics(world, repo.name)
     IN  IF ~HasDescription(repo)
         THEN UNCHANGED <<enriched, faults>>
         ELSE \E kt \in {nt} \cup TopicsFaults :
                /\ faults + Cost(kt, nt) <= MaxFaults
                /\ faults' = faults + Cost(kt, nt)
                /\ enriched' =
                     IF Rejects(kt) THEN enriched
                     ELSE Append(enriched,
                                 DescribedRecord(repo, NamesOrEmpty(kt, world, repo.name)))
  /\ idx' = idx + 1
  /\ UNCHANGED <<variant, world, pc, page, listLog, repos, featured, groupsAll,
                 groupsFeatured, allHtml, featuredHtml, exitCode, errLogged,
                 failedAt, readmeText, extracted>>

\* variant 2 after the loop: group, render, write all_test.html.
GenerateV2 ==
  /\ variant = 2
  /\ pc = "enrich"
  /\ idx > Len(repos)
  /\ LET grouped == GroupFixed(enriched, "description")
     IN  /\ groupsAll' = grouped
         /\ allHtml' = Written(SectionsFixed(grouped, "description", FALSE))
  /\ pc' = "done"
  /\ exitCode' = 0
  /\ UNCHANGED <<variant, world, page, listLog, repos, idx, enriched, featured,
                 groupsFeatured, featuredHtml, errLogged, failedAt, faults,
                 readmeText, extracted>>

\* variant 3, one turn of the first loop: skip without description, fetch the
\* topics inside try/catch, push when they include 'workshop'.
EnrichAllV3 ==
  /\ variant = 3
  /\ pc = "enrich"
  /\ idx <= Len(repos)
  /\ LET repo == repos[idx]
         nt   == NaturalTopics(world, repo.name)
     IN  IF ~HasDescription(repo)
         THEN UNCHANGED <<enriched, faults>>
         ELSE \E kt \in {nt} \cup TopicsFaults :
                /\ faults + Cost(kt, nt) <= MaxFaults
                /\ faults' = faults + Cost(kt, nt)
                /\ enriched' =
                     IF kt = "ok" /\ Includes(ServerTopics(world, repo.name), "workshop")
                     THEN Append(enriched,
                                 DescribedRecord(repo, ServerTopics(world, repo.name)))
                     ELSE enriched
  /\ idx' = idx + 1
  /\ UNCHANGED <<variant, world, pc, page, listLog, repos, featured, groupsAll,
                 groupsFeatured, allHtml, featuredHtml, exitCode, errLogged,
                 failedAt, readmeText, extracted>>

\* variant 3 between the loops: group, render and write all_test.html, then
\* start the featured pass.
GenerateAllV3 ==
  /\ variant = 3
  /\ pc = "enrich"
  /\ idx > Len(repos)
  /\ LET grouped == GroupFixed(enriched, "description")
     IN  /\ groupsAll' = grouped
         /\ allHtml' = Written(SectionsFixed(grouped, "description", FALSE))
  /\ pc' = "featured"
  /\ idx' = 1
  /\ UNCHANGED <<variant, world, page, listLog, repos, enriched, featured,
                 groupsFeatured, featuredHtml, exitCode, errLogged, failedAt,
                 faults, readmeText, extracted>>

\* variant 3, one turn of the second loop: fetch the topics again and, for a
\* featured workshop, the README; everything inside try/catch.
FeaturedV3 ==
  /\ variant = 3
  /\ pc = "featured"
  /\ idx <= Len(repos)
  /\ LET repo == repos[idx]
         nt   == NaturalTopics(world, repo.name)
         nr   == NaturalReadme(world, repo.name)
     IN  \E kt \in {nt} \cup TopicsFaults, kr \in {nr} \cup ReadmeFaults :
           IF /\ kt = "ok"
              /\ Includes(ServerTopics(world, repo.name), "workshop")
              /\ Includes(ServerTopics(world, repo.name), "featured")
           THEN /\ faults + Cost(kr, nr) <= MaxFaults
                /\ faults' = faults + Cost(kr, nr)
                /\ featured' =
                     Append(featured,
                            TitledRecord(3, repo, ServerTopics(world, repo.name),
                                         ReadmeV3(kr, world, repo.name)))
           ELSE /\ kr = nr
                /\ faults + Cost(kt, nt) <= MaxFaults
                /\ faults' = faults + Cost(kt, nt)
                /\ UNCHANGED featured
  /\ idx' = idx + 1
  /\ UNCHANGED <<variant, world, pc, page, listLog, repos, enriched, groupsAll,
                 groupsFeatured, allHtml, featuredHtml, exitCode, errLogged,
                 failedAt, readmeText, extracted>>

\* variant 3 after the second loop: group, render and write
\* featured_workshops.html.
GenerateFeaturedV3 ==
  /\ variant = 3
  /\ pc = "featured"
  /\ idx > Len(repos)
  /\ LET grouped == GroupFixed(featured, "title")
     IN  /\ groupsFeatured' = grouped
         /\ featuredHtml' = Written(SectionsFixed(grouped, "title", TRUE))
  /\ pc' = "done"
  /\ exitCode' = 0
  /\ UNCHANGED <<variant, world, page, listLog, repos, idx, enriched, featured,
                 groupsAll, allHtml, errLogged, failedAt, faults, readmeText,
                 extracted>>

Next ==
  \/ ListPageV1
  \/ ListV2
  \/ ListPageV3
  \/ EnrichV1
  \/ GenerateV1
  \/ EnrichV2
  \/ GenerateV2
  \/ EnrichAllV3
  \/ GenerateAllV3
  \/ FeaturedV3
  \/ GenerateFeaturedV3

Spec == Init /\ [][Next]_vars

-----------------------------------------------------------------------------
(* extractTitleAndBlurb on its own *)

InitExtract ==
  /\ variant \in {1, 3}
  /\ readmeText \in SampleReadmes
  /\ extracted = NotExtracted
  /\ world = <<>>
  /\ pc = "idle"
  /\ page = 1
  /\ listLog = <<>>
  /\ repos = <<>>
  /\ idx = 1
  /\ enriched = <<>>
  /\ featured = <<>>
  /\ groupsAll = NoGroups
  /\ groupsFeatured = NoGroups
  /\ allHtml = NotWritten
  /\ featuredHtml = NotWritten
  /\ exitCode = -1
  /\ errLogged = FALSE
  /\ failedAt = "nowhere"
  /\ faults = 0

\* const { title, blurb } = extractTitleAndBlurb(readme)
ExtractCall ==
  /\ pc = "idle"
  /\ extracted = NotExtracted
  /\ extracted' = extractTitleAndBlurb(variant, readmeText)
  /\ UNCHANGED <<variant, readmeText>>
  /\ UNCHANGED pipelineVars

NextExtract == ExtractCall

SpecExtract == InitExtract /\ [][NextExtract]_vars

-----------------------------------------------------------------------------
(* What the written pages show *)

EndsWith(s, suffix) ==
  Len(s) >= Len(suffix) /\ SubSeq(s, Len(s) - Len(suffix) + 1, Len(s)) = suffix

\* The link text without the " (archived)" suffix: the record's sort field.
DisplayOf(item) ==
  IF EndsWith(item.text, ARCHIVED_SUFFIX)
  THEN SubSeq(item.text, 1, Len(item.text) - Len(ARCHIVED_SUFFIX))
  ELSE item.text

\* The repository name inside the link's href.
NameOf(item) == SubSeq(item.href, 2, Len(item.href) - 1)

Pages == {allHtml, featuredHtml}

\* The <<topic, item>> pairs a page lists.
Listed(p) ==
  UNION {{<<p.sections[s].topic, p.sections[s].items[i]>> :
            i \in 1..Len(p.sections[s].items)} : s \in 1..Len(p.sections)}

Elements(seq) == {seq[i] : i \in 1..Len(seq)}

TopicsPresent(rs) == UNION {Elements(rs[i].topics) : i \in 1..Len(rs)}

WorldIndex(name) == CHOOSE i \in 1..Len(world) : world[i].name = name

-----------------------------------------------------------------------------
(* C1: the paginated lister *)

RECURSIVE ReceivedPages(_)
ReceivedPages(n) ==
  IF n = 0 THEN <<>> ELSE ReceivedPages(n - 1) \o Page(world, listLog[n].page)

AllArrays == \A i \in 1..Len(listLog) : listLog[i].kind = "ok"

\* fetchAllRepos has returned to main.
Returned == pc \notin {"list", "idle"} /\ failedAt # "list"

RequestsInOrder == \A i \in 1..Len(listLog) : listLog[i].page = i

ReturnsConcatenation ==
  (AllArrays /\ Returned) => repos = ReceivedPages(Len(listLog))

\* C1 as the spec states it: fetchAllRepos requests pages 1, 2, 3, ... in
\* order, returns the concatenation of the pages received, and issues no
\* listing request after the first page of fewer than 100 items.
C1_StopsAfterFirstShortPage ==
  variant \in {1, 3} =>
    /\ RequestsInOrder
    /\ ReturnsConcatenation
    /\ AllArrays => \A i \in 1..(Len(listLog) - 1) : listLog[i].len = PER_PAGE
    /\ (AllArrays /\ Returned) => listLog[Len(listLog)].len < PER_PAGE

\* C1 amended: fetchAllRepos requests pages 1, 2, 3, ... in order and, when
\* every response is a JSON array, returns the concatenation of the pages
\* received. The do-while lister (variant 3) stops after the first page of
\* fewer than 100 items; the while(true) lister (variant 1) stops only after
\* the first page of zero items, so a non-empty page of fewer than 100 items
\* is followed by one more listing request.
C1_StopsPerVariant ==
  variant \in {1, 3} =>
    /\ RequestsInOrder
    /\ ReturnsConcatenation
    /\ variant = 3 =>
         /\ \A i \in 1..(Len(listLog) - 1) :
              listLog[i].kind = "ok" /\ listLog[i].len = PER_PAGE
         /\ (AllArrays /\ Returned) => listLog[Len(listLog)].len < PER_PAGE
    /\ variant = 1 =>
         /\ \A i \in 1..(Len(listLog) - 1) :
              listLog[i].kind = "ok" => listLog[i].len > 0
         /\ (AllArrays /\ Returned) => listLog[Len(listLog)].len = 0

\* The while(true) lister has returned after a full page, a short page that
\* is not empty, and the empty page it still asked for.
C1_Witness ==
  /\ variant = 1
  /\ Returned
  /\ AllArrays
  /\ Len(listLog) = 3
  /\ listLog[1].len = PER_PAGE
  /\ listLog[2].len = 1
  /\ listLog[3].len = 0
  /\ Len(repos) = PER_PAGE + 1

-----------------------------------------------------------------------------
(* C2: a failed listing request aborts the run *)

\* C2: once a listing request has failed (non-2xx, network failure, or a body
\* that is no JSON array) no further listing request is made, the error is
\* logged, the process exits non-zero and neither page has been written.
C2_ListingFailureAborts ==
  \A i \in 1..Len(listLog) :
    listLog[i].kind # "ok" =>
      /\ i = Len(listLog)
      /\ pc = "aborted"
      /\ exitCode = 1
      /\ errLogged
      /\ ~allHtml.written
      /\ ~featuredHtml.written

-----------------------------------------------------------------------------
(* C3: a failed topics or README request never aborts the run *)

\* C3: no error of a topics request or of a README request escapes main(): the
\* run is never aborted by one.
C3_RepoFailuresTolerated == failedAt \notin {"topics", "readme"}

-----------------------------------------------------------------------------
(* C4: extractTitleAndBlurb *)

ReadmeLines == Split(readmeText)

IsHeading(line) == StartsWith(line, HASH)
IsDescription(line) == StartsWith(line, DESCRIPTION_MARK)

Least(S) == CHOOSE i \in S : \A j \in S : i <= j

\* The value is the content of the first line at one of the indices, and the
\* value is empty (null or '') when there is none.
IsFirstOf(value, indices, contents) ==
  IF indices = {} THEN ~Truthy(value) ELSE value = contents[Least(indices)]

HeadingContents == [i \in 1..Len(ReadmeLines) |-> HeadingContent(ReadmeLines[i])]
BlurbContents == [i \in 1..Len(ReadmeLines) |-> BlurbContent(variant, ReadmeLines[i])]

\* C4 as the spec states it: title is the content of the first line that
\* begins with '#', blurb the content of the first line that begins with
\* 'Description:', each empty when there is no such line.
C4_FirstMarkedLine ==
  extracted # NotExtracted =>
    /\ IsFirstOf(extracted.title,
                 {i \in 1..Len(ReadmeLines) : IsHeading(ReadmeLines[i])},
                 HeadingContents)
    /\ IsFirstOf(extracted.blurb,
                 {i \in 1..Len(ReadmeLines) : IsDescription(ReadmeLines[i])},
                 BlurbContents)

\* C4 amended: title is the content of the first line that begins with '#'
\* and has non-empty content after the marker, blurb the content of the first
\* line that begins with 'Description:' and has non-empty content after it;
\* each is empty (null in variant 1's start value, '' otherwise) when there is
\* no such line.
C4_FirstMarkedLineWithContent ==
  extracted # NotExtracted =>
    /\ IsFirstOf(extracted.title,
                 {i \in 1..Len(ReadmeLines) :
                    IsHeading(ReadmeLines[i]) /\ HeadingContents[i] # <<>>},
                 HeadingContents)
    /\ IsFirstOf(extracted.blurb,
                 {i \in 1..Len(ReadmeLines) :
                    IsDescription(ReadmeLines[i]) /\ BlurbContents[i] # <<>>},
                 BlurbContents)

\* A README whose first heading line is bare and whose later heading line
\* gave the title.
C4_Witness ==
  /\ extracted # NotExtracted
  /\ \E i, j \in 1..Len(ReadmeLines) :
       /\ i < j
       /\ IsHeading(ReadmeLines[i])
       /\ HeadingContent(ReadmeLines[i]) = <<>>
       /\ \A k \in 1..(j - 1) : ~IsHeading(ReadmeLines[k]) \/ k = i
       /\ IsHeading(ReadmeLines[j])
       /\ extracted.title = HeadingContent(ReadmeLines[j])
       /\ extracted.title # <<>>

-----------------------------------------------------------------------------
(* C5: the keys of the grouping output *)

\* The two groupings of variant 1 are made when it is done; variants 2 and 3
\* group the full listing when they write all_test.html, variant 3 the
\* featured records when it is done.
GroupedAll == (variant = 1 /\ pc = "done") \/ (variant \in {2, 3} /\ allHtml.written)
GroupedFeatured == variant \in {1, 3} /\ pc = "done"

Untagged(rs) == \E i \in 1..Len(rs) : Len(rs[i].topics) = 0

\* Group t holds exactly the records that carry t ("Other": that carry none).
HoldsItsRecords(groups, rs) ==
  \A t \in DOMAIN groups :
    Elements(groups[t]) =
      {r \in Elements(rs) : Includes(r.topics, t) \/ (t = "Other" /\ Len(r.topics) = 0)}

\* C5 as the spec states it: the keys of the grouping output are exactly the
\* topics carried by at least one input record (free-form), and exactly the
\* TOPIC_LABELS keys carried by at least one input record (fixed labels).
C5_KeysArePresentTopics ==
  /\ GroupedAll =>
       DOMAIN groupsAll = IF variant = 1 THEN TopicsPresent(enriched)
                          ELSE TopicLabelKeys \cap TopicsPresent(enriched)
  /\ GroupedFeatured =>
       DOMAIN groupsFeatured = IF variant = 1 THEN TopicsPresent(featured)
                               ELSE TopicLabelKeys \cap TopicsPresent(featured)

FreeKeys(rs) == TopicsPresent(rs) \cup (IF Untagged(rs) THEN {"Other"} ELSE {})
Inhabited(groups) == {t \in DOMAIN groups : Len(groups[t]) > 0}

\* C5 amended: in the free-form variant the keys are exactly the topics
\* carried by at least one input record, plus "Other" exactly when some input
\* record carries no topic. In the fixed-label variants the grouping output
\* always has every TOPIC_LABELS key; the keys whose group is not empty (the
\* groups that are rendered) are exactly the TOPIC_LABELS keys carried by at
\* least one input record. Each group holds exactly the records of its key.
C5_KeysPerPolicy ==
  /\ GroupedAll =>
       /\ HoldsItsRecords(groupsAll, enriched)
       /\ IF variant = 1
          THEN DOMAIN groupsAll = FreeKeys(enriched)
          ELSE /\ DOMAIN groupsAll = TopicLabelKeys
               /\ Inhabited(groupsAll) = TopicLabelKeys \cap TopicsPresent(enriched)
  /\ GroupedFeatured =>
       /\ HoldsItsRecords(groupsFeatured, featured)
       /\ IF variant = 1
          THEN DOMAIN groupsFeatured = FreeKeys(featured)
          ELSE /\ DOMAIN groupsFeatured = TopicLabelKeys
               /\ Inhabited(groupsFeatured) = TopicLabelKeys \cap TopicsPresent(featured)

\* The free-form grouping of a record without topics beside a tagged one.
C5_Witness ==
  /\ variant = 1
  /\ pc = "done"
  /\ "Other" \in DOMAIN groupsAll
  /\ "data" \in DOMAIN groupsAll
  /\ "workshop" \in DOMAIN groupsFeatured

-----------------------------------------------------------------------------
(* C6: every rendered group is sorted *)

\* C6: in every topic group of every written page the entries are in ascending
\* localeCompare order of their sort field, which is the link text shown: the
\* title in the free-form and featured listings, the description in the
\* fixed-label full listing.
C6_GroupsAscending ==
  \A p \in Pages : \A s \in 1..Len(p.sections) :
    \A i \in 1..(Len(p.sections[s].items) - 1) :
      localeCompare(DisplayOf(p.sections[s].items[i]),
                    DisplayOf(p.sections[s].items[i + 1])) <= 0

\* A written group whose two entries the organisation lists the other way
\* round, and whose sort fields differ.
C6_Witness ==
  \E p \in Pages : \E s \in 1..Len(p.sections) :
    LET items == p.sections[s].items
    IN  /\ p.written
        /\ Len(items) = 2
        /\ Known(world, NameOf(items[1]))
        /\ Known(world, NameOf(items[2]))
        /\ WorldIndex(NameOf(items[1])) > WorldIndex(NameOf(items[2]))
        /\ localeCompare(DisplayOf(items[1]), DisplayOf(items[2])) < 0

-----------------------------------------------------------------------------
(* C7: the display text is never empty *)

\* The repository a titled record was made from had that title to offer: the
\* title of its README, its description, or its name, and the name only when
\* it has no description.
TitleFallsBack(r) ==
  Known(world, r.name) =>
    LET w == Lookup(world, r.name)
        t == IF w.readme = Undefined THEN Undefined
             ELSE extractTitleAndBlurb(variant, w.readme).title
    IN  /\ r.title \in ({t, w.description} \cap {v \in {t, w.description} : Truthy(v)})
                         \cup {w.name}
        /\ (r.title = w.name /\ Truthy(w.description)) => w.description = w.name
        /\ Truthy(r.title)

TitledRecords ==
  IF variant = 1 THEN Elements(enriched) \cup Elements(featured)
  ELSE IF variant = 3 THEN Elements(featured)
  ELSE {}

\* C7: every entry of every written page shows a non-empty text; a title is
\* the README title, else the description, else the repository name; and the
\* description-based listings show only repositories with a non-empty
\* description, by that description.
C7_DisplayTextNonEmpty ==
  /\ \A p \in Pages : \A li \in Listed(p) : DisplayOf(li[2]) # <<>>
  /\ \A r \in TitledRecords : TitleFallsBack(r)
  /\ variant \in {2, 3} =>
       \A li \in Listed(allHtml) :
         /\ Known(world, NameOf(li[2]))
         /\ Truthy(Lookup(world, NameOf(li[2])).description)
         /\ DisplayOf(li[2]) = Lookup(world, NameOf(li[2])).description

\* A featured entry of a repository without description and without README
\* title: it shows the repository's name.
C7_Witness ==
  /\ variant = 3
  /\ featuredHtml.written
  /\ \E li \in Listed(featuredHtml) :
       /\ Known(world, NameOf(li[2]))
       /\ ~Truthy(Lookup(world, NameOf(li[2])).description)
       /\ DisplayOf(li[2]) = NameOf(li[2])

-----------------------------------------------------------------------------
(* C8: the description filter *)

Undescribed == {w \in Elements(world) : ~Truthy(w.description)}

\* C8: in the variants with the description filter (2 and 3) a repository
\* whose description is missing or empty is never in enriched and never on
\* all_test.html, whatever its topics.
C8_UndescribedExcluded ==
  variant \in {2, 3} =>
    \A w \in Undescribed :
      /\ \A r \in Elements(enriched) : r.name # w.name
      /\ \A li \in Listed(allHtml) : NameOf(li[2]) # w.name

\* all_test.html is written for an organisation with a workshop repository
\* whose description is '' and one whose description is null, each tagged with
\* a TOPIC_LABELS key, listed beside a described repository that is shown.
C8_Witness ==
  /\ variant = 3
  /\ allHtml.written
  /\ faults = 0
  /\ \E w \in Undescribed :
       /\ Includes(w.topics, "workshop")
       /\ \E t \in TopicLabelKeys : Includes(w.topics, t)
  /\ Listed(allHtml) # {}

-----------------------------------------------------------------------------
(* C9: the archived mark *)

\* The archived flag of the repository an entry links to (a name the
\* organisation does not have is that of no repository).
ArchivedFlag(item) ==
  Known(world, NameOf(item)) /\ Lookup(world, NameOf(item)).archived

\* C9: on every written page an entry has the " (archived)" suffix and the
\* archived class if and only if its repository's archived flag is true.
C9_ArchivedMarked ==
  \A p \in Pages : \A li \in Listed(p) :
    /\ EndsWith(li[2].text, ARCHIVED_SUFFIX) <=> ArchivedFlag(li[2])
    /\ li[2].cls = ARCHIVED_CLASS <=> ArchivedFlag(li[2])

\* A written page with an archived entry and one that is not.
C9_Witness ==
  \E p \in Pages :
    /\ p.written
    /\ \E li \in Listed(p) : ArchivedFlag(li[2]) /\ li[2].cls = ARCHIVED_CLASS
    /\ \E li \in Listed(p) : ~ArchivedFlag(li[2]) /\ li[2].cls = ""

-----------------------------------------------------------------------------
(* C10: the featured page against the full listing *)

\* C10: once both pages are written, every repository listed on
\* featured_workshops.html is listed on all_test.html under the same topic
\* group.
C10_FeaturedWithinAll ==
  (allHtml.written /\ featuredHtml.written) =>
    \A lf \in Listed(featuredHtml) :
      \E la \in Listed(allHtml) : la[1] = lf[1] /\ NameOf(la[2]) = NameOf(lf[2])

=============================================================================
